---- MODULE Spec2Model ----
(***************************************************************************)
(* The game reducer of src/src/state/game.ts: a shooting contest played in *)
(* rounds.  The state is the Game value held by gameAtom; every action is  *)
(* one dispatch of gameReducer.  Array indices keep the source's 0-based   *)
(* values (activeRound, activePlayer, nextMake); sequences are 1-based, so *)
(* an index i of the source reads element i + 1.                           *)
(***************************************************************************)
EXTENDS Integers, Sequences, FiniteSets, TLC

VARIABLES game, prev, last

vars == <<game, prev, last>>

\* ---------------------------------------------------------------- bounds
MaxPlayers == 3
MaxAttempts == 2
MaxBestOf == 3
\* Attempts recorded in one match (the overtime of a tied round is unbounded).
MaxShots == 9

\* ---------------------------------------------------------------- values
\* A pending attempt slot (null); a taken one is "true" or "false".
Null == "null"
\* winner: null, for a round (player id) and for the game (player).
NoWinner == 0

\* Math.random() * 100 rounded: an integer 0..100; these draws decide every
\* comparison with the percentages below.
Draws == {0, 1, 100}

\* Player: id, percentage, controlled (name is display only).
Controlled == [controlled |-> TRUE, percentage |-> 50]
Simulated(percentage) == [controlled |-> FALSE, percentage |-> percentage]

\* The kinds of the players of a roster, repeated over its positions.
Lineups ==
    { <<Controlled>>,
      <<Simulated(0)>>,
      <<Controlled, Simulated(0)>>,
      <<Simulated(100), Controlled>>,
      <<Simulated(0), Simulated(100)>> }

Rosters ==
    { [i \in 1..n |-> [id |-> i,
                       percentage |-> k[((i - 1) % Len(k)) + 1].percentage,
                       controlled |-> k[((i - 1) % Len(k)) + 1].controlled]] :
        n \in 2..MaxPlayers, k \in Lineups }

\* ---------------------------------------------------------------- GAME
GAME ==
    [ winner |-> NoWinner,
      players |-> <<>>,
      rounds |-> <<>>,
      bestOf |-> 3,
      attempts |-> 5,
      activeRound |-> 0 ]

\* ---------------------------------------------------------------- queries
HasActiveRound(g) == g.activeRound + 1 \in DOMAIN g.rounds

getActiveRound(g) == g.rounds[g.activeRound + 1]

PlayerById(g, id) == CHOOSE p \in { g.players[i] : i \in DOMAIN g.players } : p.id = id

HasActivePlayer(g) ==
    /\ HasActiveRound(g)
    /\ LET round == getActiveRound(g) IN
        /\ round.activePlayer + 1 \in DOMAIN round.order
        /\ \E i \in DOMAIN g.players : g.players[i].id = round.order[round.activePlayer + 1]

getActivePlayer(g) ==
    LET round == getActiveRound(g) IN PlayerById(g, round.order[round.activePlayer + 1])

\* ---------------------------------------------------------------- helpers
randomMake(random, percentage) == IF random <= percentage THEN "true" ELSE "false"

Reverse(s) == [i \in 1..Len(s) |-> s[Len(s) + 1 - i]]

\* The first slot in place of -1 when no slot is pending.
findIndexNullOrFirst(makes) ==
    IF \E i \in DOMAIN makes : makes[i] = Null
    THEN (CHOOSE i \in DOMAIN makes :
            /\ makes[i] = Null
            /\ \A j \in DOMAIN makes : makes[j] = Null => i <= j) - 1
    ELSE 0

\* findLastIndex in place of findIndex.
findLastIndexNull(makes) ==
    IF \E i \in DOMAIN makes : makes[i] = Null
    THEN (CHOOSE i \in DOMAIN makes :
            /\ makes[i] = Null
            /\ \A j \in DOMAIN makes : makes[j] = Null => j <= i) - 1
    ELSE -1

\* findIndex((make) => make == null): 0-based, -1 when there is none.
findIndexNull(makes) ==
    IF \E i \in DOMAIN makes : makes[i] = Null
    THEN (CHOOSE i \in DOMAIN makes :
            /\ makes[i] = Null
            /\ \A j \in DOMAIN makes : makes[j] = Null => i <= j) - 1
    ELSE -1

Total(attempts) == Cardinality({ i \in DOMAIN attempts : attempts[i] = "true" })

RECURSIVE checkWinnersFrom(_, _, _, _, _)
\* The loop of checkWinners over the keys of round.attempts (roster order),
\* from key number k on, with the running max and winner list.
checkWinnersFrom(g, round, k, max, winner) ==
    IF k > Len(g.players) THEN winner
    ELSE LET playerId == g.players[k].id
             attempts == round.attempts[playerId]
             total == Total(attempts)
         IN IF \E i \in DOMAIN attempts : attempts[i] = Null THEN <<>>
            ELSE IF total = max
                 THEN checkWinnersFrom(g, round, k + 1, max, Append(winner, playerId))
                 ELSE IF total > max
                      THEN checkWinnersFrom(g, round, k + 1, total, <<playerId>>)
                      ELSE checkWinnersFrom(g, round, k + 1, max, winner)

\* `winner = [playerId]` in place of winner.push: only one leader is kept.
checkWinnersFirst(g) ==
    LET winner == checkWinnersFrom(g, getActiveRound(g), 1, 0, <<>>)
    IN IF Len(winner) > 1 THEN <<winner[1]>> ELSE winner

checkWinners(g) == checkWinnersFrom(g, getActiveRound(g), 1, 0, <<>>)

\* The previous order copied without .reverse().
nextOrderCopied(g) ==
    IF Len(g.rounds) > 0
    THEN g.rounds[Len(g.rounds)].order
    ELSE [i \in DOMAIN g.players |-> g.players[i].id]

nextOrder(g) ==
    IF Len(g.rounds) > 0
    THEN Reverse(g.rounds[Len(g.rounds)].order)
    ELSE [i \in DOMAIN g.players |-> g.players[i].id]

\* The arrays sized like those of the previous round (overtime included).
newAttemptsCopied(g) ==
    [id \in { g.players[i].id : i \in DOMAIN g.players } |->
        [i \in 1..(IF Len(g.rounds) > 0
                   THEN Len(g.rounds[Len(g.rounds)].attempts[id])
                   ELSE g.attempts) |-> Null]]

newAttempts(g) ==
    [id \in { g.players[i].id : i \in DOMAIN g.players } |->
        [i \in 1..g.attempts |-> Null]]

\* createNextRound without `game.activeRound = game.rounds.length`.
createNextRoundKeepActive(g) ==
    [g EXCEPT
        !.rounds = Append(g.rounds,
            [ winner |-> NoWinner,
              order |-> nextOrder(g),
              activePlayer |-> 0,
              attempts |-> newAttempts(g) ])]

createNextRound(g) ==
    [g EXCEPT
        !.activeRound = Len(g.rounds),
        !.rounds = Append(g.rounds,
            [ winner |-> NoWinner,
              order |-> nextOrder(g),
              activePlayer |-> 0,
              attempts |-> newAttempts(g) ])]

overtimeSlot(attempts) == Append(attempts, Null)

\* The extra slot pushed only for the player who just shot.
overtimeActiveOnly(g) ==
    [g EXCEPT !.rounds[g.activeRound + 1].attempts[getActivePlayer(g).id] =
        overtimeSlot(@)]

\* The extra slot pushed only for the players who are tied.
overtimeTiedOnly(g) ==
    [g EXCEPT !.rounds[g.activeRound + 1].attempts =
        [id \in DOMAIN @ |->
            IF \E k \in DOMAIN checkWinners(g) : checkWinners(g)[k] = id
            THEN overtimeSlot(@[id]) ELSE @[id]]]

\* Overtime that also hands the turn back to the first player of the order.
overtimeResetTurn(g) ==
    [g EXCEPT !.rounds[g.activeRound + 1].attempts =
                  [id \in DOMAIN @ |-> overtimeSlot(@[id])],
              !.rounds[g.activeRound + 1].activePlayer = 0]

overtime(g) ==
    [g EXCEPT !.rounds[g.activeRound + 1].attempts =
        [id \in DOMAIN @ |-> overtimeSlot(@[id])]]

hasAttemptsLeft(round) ==
    \E id \in DOMAIN round.attempts :
        \E i \in DOMAIN round.attempts[id] : round.attempts[id][i] = Null

\* bestOf itself, not its half.
winsToFinishAll(bestOf) == bestOf

\* Math.floor in place of Math.ceil.
winsToFinishFloor(bestOf) == bestOf \div 2

\* Math.ceil(game.bestOf / 2)
winsToFinish(bestOf) == (bestOf + 1) \div 2

RECURSIVE checkGameOverFrom(_, _, _)
\* The loop of checkGameOver from round number k on; winsByPlayer maps the
\* ids counted so far.  Returns the game and the boolean result.
checkGameOverFrom(g, k, winsByPlayer) ==
    IF k > Len(g.rounds) THEN [game |-> g, over |-> FALSE]
    ELSE LET w == g.rounds[k].winner IN
         IF w = NoWinner THEN checkGameOverFrom(g, k + 1, winsByPlayer)
         ELSE LET wins == [winsByPlayer EXCEPT ![w] = @ + 1] IN
              IF wins[w] = winsToFinish(g.bestOf)
              THEN [game |-> [g EXCEPT !.winner = PlayerById(g, w).id], over |-> TRUE]
              ELSE checkGameOverFrom(g, k + 1, wins)

\* checkGameOver without its `return true`: the winner is set, the caller goes on.
checkGameOverNoReturn(g) ==
    [ game |-> checkGameOverFrom(g, 1,
                  [id \in { g.players[i].id : i \in DOMAIN g.players } |-> 0]).game,
      over |-> FALSE ]

checkGameOver(g) ==
    checkGameOverFrom(g, 1, [id \in { g.players[i].id : i \in DOMAIN g.players } |-> 0])

\* The turn left where it is.
nextActivePlayerStuck(round) == round.activePlayer

\* The increment without the modulo.
nextActivePlayerNoWrap(round) == round.activePlayer + 1

nextActivePlayer(round) == (round.activePlayer + 1) % Len(round.order)

\* The tail of endRound, after the tie and winner branches; r is the index
\* (0-based) of the round that was active when endRound was entered.
endRoundTurn(g, r) ==
    LET round == g.rounds[r + 1]
        nextRound == r + 1
    IN IF hasAttemptsLeft(round)
       THEN [g EXCEPT !.rounds[r + 1].activePlayer = nextActivePlayer(round)]
       ELSE LET isLastPlayer == round.activePlayer = Len(round.order) - 1
                hasMoreRounds == nextRound < Len(g.rounds)
            IN IF isLastPlayer /\ hasMoreRounds
               THEN [g EXCEPT !.rounds[r + 1].activePlayer = 0,
                              !.activeRound = nextRound]
               ELSE g

endRound(g) ==
    LET winners == checkWinners(g)
        r == g.activeRound
    IN IF Len(winners) > 1
       THEN overtime(g)
       ELSE IF Len(winners) = 1
            THEN LET won == [g EXCEPT !.rounds[r + 1].winner = winners[1]]
                     over == checkGameOver(won)
                 IN IF over.over THEN over.game
                    ELSE endRoundTurn(createNextRound(over.game), r)
            ELSE endRoundTurn(g, r)

\* ---------------------------------------------------------------- reducer
\* A dispatch either returns a Game or throws; a throw leaves the atom's
\* value as it was.
Return(g) == [game |-> g, threw |-> FALSE]
Throw(state) == [game |-> state, threw |-> TRUE]

\* The loop without its `continue`: every slot is sampled again.
isTakenNever(make) == FALSE

\* if (makes[i] != null) continue;
isTaken(make) == make # Null

\* The loop stopping after the first pending slot, as make and miss do.
fillFirstPending(makes, percentage, draws) ==
    [i \in DOMAIN makes |->
        IF i = findIndexNull(makes) + 1 THEN randomMake(draws[i], percentage)
        ELSE makes[i]]

\* draws[i]: the value Math.random() yields when slot i is sampled.
fillPending(makes, percentage, draws) ==
    [i \in DOMAIN makes |->
        IF isTaken(makes[i]) THEN makes[i] ELSE randomMake(draws[i], percentage)]

\* simulate without its check of player.controlled.
ignoresSimulateNever(player) == FALSE

\* if (player.controlled) return;
ignoresSimulate(player) == player.controlled

\* if (!player.controlled) return;
ignoresMakeMiss(player) == ~player.controlled

reduceSimulate(state, draws) ==
    IF ~HasActivePlayer(state) THEN Throw(state)
    ELSE LET round == getActiveRound(state)
             player == getActivePlayer(state)
         IN IF ignoresSimulate(player) THEN Return(state)
            ELSE IF player.id \notin DOMAIN round.attempts THEN Throw(state)
            ELSE Return(endRound(
                    [state EXCEPT !.rounds[state.activeRound + 1].attempts[player.id] =
                        fillPending(@, player.percentage, draws)]))

\* makes.length - 2 in place of makes.length - 1.
isLastSlotOffByOne(nextMake, makes) == nextMake = Len(makes) - 2

\* endRound called after every recorded attempt.
isLastSlotAlways(nextMake, makes) == TRUE

\* if (nextMake === makes.length - 1)
isLastSlot(nextMake, makes) == nextMake = Len(makes) - 1

reduceMakeMiss(state, type) ==
    IF ~HasActivePlayer(state) THEN Throw(state)
    ELSE LET round == getActiveRound(state)
             player == getActivePlayer(state)
         IN IF ignoresMakeMiss(player) THEN Return(state)
            ELSE IF player.id \notin DOMAIN round.attempts THEN Throw(state)
            ELSE LET makes == round.attempts[player.id]
                     nextMake == findIndexNull(makes)
                 IN IF nextMake < 0 THEN Throw(state)
                    ELSE LET shot == [state EXCEPT
                                !.rounds[state.activeRound + 1].attempts[player.id][nextMake + 1] =
                                    IF type = "make" THEN "true" ELSE "false"]
                         IN IF isLastSlot(nextMake, makes)
                            THEN Return(endRound(shot))
                            ELSE Return(shot)

\* The first round created before attempts and bestOf are assigned.
reduceStartRoundFirst(state, players, attempts, bestOf) ==
    Return([createNextRound([state EXCEPT !.players = players])
                EXCEPT !.attempts = attempts, !.bestOf = bestOf])

reduceStart(state, players, attempts, bestOf) ==
    Return(createNextRound(
        [state EXCEPT !.players = players, !.attempts = attempts, !.bestOf = bestOf]))

\* ---------------------------------------------------------------- actions
Shots(g) ==
    LET RECURSIVE Sum(_)
        Sum(k) == IF k = 0 THEN 0
                  ELSE Sum(k - 1) +
                       LET a == g.rounds[k].attempts IN
                       LET RECURSIVE SumIds(_)
                           SumIds(S) == IF S = {} THEN 0
                                        ELSE LET id == CHOOSE x \in S : TRUE IN
                                             Cardinality({ i \in DOMAIN a[id] : a[id][i] # Null })
                                             + SumIds(S \ {id})
                       IN SumIds(DOMAIN a)
    IN Sum(Len(g.rounds))

\* The slots a simulate dispatched on g samples with Math.random().
SampledSlots(g) ==
    IF /\ HasActivePlayer(g)
       /\ ~ignoresSimulate(getActivePlayer(g))
       /\ getActivePlayer(g).id \in DOMAIN getActiveRound(g).attempts
    THEN LET makes == getActiveRound(g).attempts[getActivePlayer(g).id]
         IN { i \in DOMAIN makes : ~isTaken(makes[i]) }
    ELSE {}

\* The fields of an action besides its type: those of start, empty otherwise.
NoArgs == [players |-> <<>>, attempts |-> 0, bestOf |-> 0]

Dispatch(type, args, res) ==
    /\ Shots(res.game) <= MaxShots
    /\ game' = res.game
    /\ prev' = game
    /\ last' = [type |-> type, args |-> args, threw |-> res.threw]

Init ==
    /\ game = GAME
    /\ prev = GAME
    /\ last = [type |-> "init", args |-> NoArgs, threw |-> FALSE]

\* PlayersForm is rendered, and start dispatched, only while there is no player.
Start ==
    /\ Len(game.players) = 0
    /\ \E players \in Rosters, attempts \in 1..MaxAttempts, bestOf \in 1..MaxBestOf :
        Dispatch("start",
                 [players |-> players, attempts |-> attempts, bestOf |-> bestOf],
                 reduceStart(game, players, attempts, bestOf))

Make == Dispatch("make", NoArgs, reduceMakeMiss(game, "make"))

Miss == Dispatch("miss", NoArgs, reduceMakeMiss(game, "miss"))

Simulate ==
    \E draws \in [SampledSlots(game) -> Draws] :
        Dispatch("simulate", NoArgs, reduceSimulate(game, draws))

Next == Start \/ Make \/ Miss \/ Simulate

Spec == Init /\ [][Next]_vars

\* The matches of the termination run: no cap on the shots played, so every
\* match is played to its end. What is capped is its format, by the shots of
\* its longest course without overtime, and the overtime cycles of one round.
MaxMatchShots == 6
MaxOvertime == 1

\* At most n * (winsToFinish - 1) + 1 rounds, of n * attempts shots each.
LongestMatch(n, attempts, bestOf) ==
    (n * (winsToFinish(bestOf) - 1) + 1) * n * attempts

\* No round of g has more than MaxOvertime overtime slots per player.
OvertimeWithin(g) ==
    \A k \in DOMAIN g.rounds :
        \A id \in DOMAIN g.rounds[k].attempts :
            Len(g.rounds[k].attempts[id]) <= g.attempts + MaxOvertime

LiveDispatch(type, args, res) ==
    /\ OvertimeWithin(res.game)
    /\ game' = res.game
    /\ prev' = game
    /\ last' = [type |-> type, args |-> args, threw |-> res.threw]

LiveStart ==
    /\ Len(game.players) = 0
    /\ \E players \in Rosters, attempts \in 1..MaxAttempts, bestOf \in 1..MaxBestOf :
        /\ LongestMatch(Len(players), attempts, bestOf) <= MaxMatchShots
        /\ LiveDispatch("start",
                        [players |-> players, attempts |-> attempts, bestOf |-> bestOf],
                        reduceStart(game, players, attempts, bestOf))

LiveMake == LiveDispatch("make", NoArgs, reduceMakeMiss(game, "make"))

LiveMiss == LiveDispatch("miss", NoArgs, reduceMakeMiss(game, "miss"))

LiveSimulate ==
    \E draws \in [SampledSlots(game) -> Draws] :
        LiveDispatch("simulate", NoArgs, reduceSimulate(game, draws))

LiveNext == LiveStart \/ LiveMake \/ LiveMiss \/ LiveSimulate

\* The step the active player's buttons dispatch and the reducer applies: a
\* make, miss or simulate that changes the game.
MatchingStep == (LiveMake \/ LiveMiss \/ LiveSimulate) /\ game' # game

\* res is the result of a matching step that may be taken.
StepsTo(res) == res.game # game /\ OvertimeWithin(res.game)

\* ENABLED <<MatchingStep>>_vars, written out over the three reducer cases.
CanStep ==
    \/ StepsTo(reduceMakeMiss(game, "make"))
    \/ StepsTo(reduceMakeMiss(game, "miss"))
    \/ \E draws \in [SampledSlots(game) -> Draws] :
            StepsTo(reduceSimulate(game, draws))

\* The matching step keeps being dispatched while there is one: weak fairness
\* WF_vars(MatchingStep), unfolded into its definition with the enabling
\* condition as the state predicate CanStep.
MatchingStepFair == []<>~CanStep \/ []<><<MatchingStep>>_vars

SpecLive == Init /\ [][LiveNext]_vars /\ MatchingStepFair

\* ---------------------------------------------------------------- properties
Ids(g) == { g.players[i].id : i \in DOMAIN g.players }

RoundsWon(g, id) == Cardinality({ k \in DOMAIN g.rounds : g.rounds[k].winner = id })

\* The least m with 2 * m >= bestOf.
Majority(bestOf) == CHOOSE m \in 0..bestOf : 2 * m >= bestOf /\ 2 * (m - 1) < bestOf

Played == last.type \in {"make", "miss", "simulate"}

\* C1: in the transition where a player's count of won rounds reaches
\* ceil(bestOf / 2), game.winner is set to that player and no round is
\* appended; once game.winner is set, no make, miss or simulate changes the
\* number of rounds (or the winner).
C1_MatchCompletion ==
    /\ \A id \in Ids(game) :
          (/\ RoundsWon(game, id) = Majority(game.bestOf)
           /\ RoundsWon(prev, id) < Majority(game.bestOf))
          => (/\ game.winner = id
              /\ Len(game.rounds) = Len(prev.rounds))
    /\ (Played /\ prev.winner # NoWinner)
          => (/\ Len(game.rounds) = Len(prev.rounds)
              /\ game.winner = prev.winner)

\* A best-of-3 match decided by the second round won by the same player.
C1_Witness ==
    /\ Played
    /\ game.bestOf = 3
    /\ prev.winner = NoWinner
    /\ game.winner # NoWinner
    /\ RoundsWon(game, game.winner) = 2
    /\ RoundsWon(prev, game.winner) = 1
    /\ Len(game.rounds) = Len(prev.rounds)

\* C2: in every state where game.winner is set, make, miss and simulate
\* leave the whole Game value unchanged (as a no-op or as an abort).
C2_TerminalImmutable ==
    (Played /\ prev.winner # NoWinner) => game = prev

\* A simulate that ran endRound again on a finished match, for a simulated
\* active player, and returned an equal Game.
C2_Witness ==
    /\ last.type = "simulate"
    /\ ~last.threw
    /\ prev.winner # NoWinner
    /\ ~getActivePlayer(prev).controlled
    /\ game = prev

\* The round that was active when the last action was dispatched, as it was
\* before the action and as it is after it.
RoundBefore == prev.rounds[prev.activeRound + 1]
RoundAfter == game.rounds[prev.activeRound + 1]

\* What slot i of player id, a slot that existed before the action, holds
\* after it.
Recorded(id, i) ==
    IF id \in DOMAIN RoundAfter.attempts /\ i \in DOMAIN RoundAfter.attempts[id]
    THEN RoundAfter.attempts[id][i] ELSE Null

\* The last action filled the last pending slot of the active round.
RoundCompleted ==
    /\ Played /\ ~last.threw
    /\ HasActivePlayer(prev)
    /\ \E id \in Ids(prev) : \E i \in DOMAIN RoundBefore.attempts[id] :
            RoundBefore.attempts[id][i] = Null
    /\ \A id \in Ids(prev) : \A i \in DOMAIN RoundBefore.attempts[id] :
            Recorded(id, i) # Null

Makes(id) ==
    Cardinality({ i \in DOMAIN RoundBefore.attempts[id] : Recorded(id, i) = "true" })

\* The players holding the maximum number of makes in the completed round.
Leaders ==
    LET makes == [id \in Ids(prev) |-> Makes(id)]
    IN { id \in Ids(prev) : \A o \in Ids(prev) : makes[id] >= makes[o] }

\* C3: when an action fills the last pending slot of the active round and
\* two or more players share the maximum number of makes, the round's
\* winner stays null, every player's sequence grows by exactly one pending
\* slot, no round is appended and activeRound is unchanged.
C3_TieTriggersOvertime ==
    (RoundCompleted /\ Cardinality(Leaders) >= 2)
    => (/\ RoundAfter.winner = NoWinner
        /\ \A id \in Ids(prev) :
              /\ Len(RoundAfter.attempts[id]) = Len(RoundBefore.attempts[id]) + 1
              /\ RoundAfter.attempts[id][Len(RoundAfter.attempts[id])] = Null
        /\ Len(game.rounds) = Len(prev.rounds)
        /\ game.activeRound = prev.activeRound)

\* Three players, two of them tied ahead of the third, after the round's last
\* slot was filled.
C3_Witness ==
    /\ RoundCompleted
    /\ Len(prev.players) = 3
    /\ Cardinality(Leaders) = 2
    /\ \A id \in Ids(prev) :
          Len(RoundAfter.attempts[id]) = Len(RoundBefore.attempts[id]) + 1

\* C4: when an action completes the active round with exactly one player
\* holding the maximum number of makes and that win does not complete the
\* match, the round's winner is that player and exactly one round is
\* appended, whose order is the reverse of the concluded round's order.
C4_SingleWinnerAdvances ==
    RoundCompleted =>
    \A w \in Leaders :
        (/\ Leaders = {w}
         /\ RoundsWon(prev, w) + 1 < Majority(prev.bestOf))
        => (/\ RoundAfter.winner = w
            /\ Len(game.rounds) = Len(prev.rounds) + 1
            /\ LET new == game.rounds[Len(game.rounds)].order
                   old == RoundBefore.order
               IN /\ Len(new) = Len(old)
                  /\ \A i \in DOMAIN old : new[i] = old[Len(old) + 1 - i])

\* The second round of a three-player match ends with a single leader and
\* the third round is created.
C4_Witness ==
    /\ RoundCompleted
    /\ Len(prev.players) = 3
    /\ Len(prev.rounds) = 2
    /\ Cardinality(Leaders) = 1
    /\ game.winner = NoWinner
    /\ Len(game.rounds) = 3
    /\ game.rounds[3].order = prev.rounds[1].order

\* The player whose turn it was when the last action was dispatched, and the
\* number of that player's pending slots then.
ActiveBefore == getActivePlayer(prev)

PendingBefore ==
    Cardinality({ i \in DOMAIN RoundBefore.attempts[ActiveBefore.id] :
                    RoundBefore.attempts[ActiveBefore.id][i] = Null })

\* The last action was a make or miss recorded for a controlled active player.
Shot ==
    /\ last.type \in {"make", "miss"} /\ ~last.threw
    /\ HasActivePlayer(prev)
    /\ ActiveBefore.controlled

\* The last action was a simulate that sampled the slots of a simulated
\* active player who had a pending slot.
Simulated1 ==
    /\ last.type = "simulate" /\ ~last.threw
    /\ HasActivePlayer(prev)
    /\ ~ActiveBefore.controlled
    /\ PendingBefore >= 1

\* Some slot that existed before the action is still pending after it.
StillUndecided ==
    \E id \in Ids(prev) : \E i \in DOMAIN RoundBefore.attempts[id] :
        Recorded(id, i) = Null

TurnAdvanced ==
    RoundAfter.activePlayer = (RoundBefore.activePlayer + 1) % Len(RoundBefore.order)

\* C5 as stated: in an undecided round, every make or miss by a controlled
\* active player advances activePlayer by one position modulo the number of
\* players, until the round's attempts are exhausted.
C5_EveryShotAdvances ==
    (Shot /\ RoundBefore.winner = NoWinner /\ StillUndecided) => TurnAdvanced

\* C5 amended: in an undecided round, a make or miss by a controlled active
\* player that fills that player's last pending slot while another player
\* still has a pending slot advances activePlayer by one position modulo the
\* number of players; a make or miss that fills an earlier slot leaves
\* activePlayer unchanged.
C5_LastShotAdvances ==
    (Shot /\ RoundBefore.winner = NoWinner)
    => (/\ (PendingBefore = 1 /\ StillUndecided) => TurnAdvanced
        /\ PendingBefore > 1 => RoundAfter.activePlayer = RoundBefore.activePlayer)

\* The last player of the order fills their last slot (of two per round)
\* while another player still has one, and the turn wraps to position 0.
C5_Witness ==
    /\ Shot
    /\ prev.attempts = 2
    /\ PendingBefore = 1
    /\ StillUndecided
    /\ RoundBefore.activePlayer = Len(RoundBefore.order) - 1
    /\ RoundAfter.activePlayer = 0

\* C6: in every started state, make or miss while the active player is not
\* controlled, and simulate while the active player is controlled, return a
\* state equal to the input state.
C6_NoOpIsolation ==
    (/\ Played
     /\ HasActivePlayer(prev)
     /\ \/ last.type \in {"make", "miss"} /\ ~ActiveBefore.controlled
        \/ last.type = "simulate" /\ ActiveBefore.controlled)
    => (game = prev /\ ~last.threw)

\* simulate dispatched on the turn of a controlled player who has a pending
\* slot, in a match not yet won.
C6_Witness ==
    /\ last.type = "simulate"
    /\ HasActivePlayer(prev)
    /\ ActiveBefore.controlled
    /\ prev.winner = NoWinner
    /\ PendingBefore >= 1
    /\ game = prev

\* C7 as stated: after one simulate for a simulated active player with a
\* pending slot, that player has zero pending slots in that round.
C7_NoPendingAfterSimulate ==
    Simulated1
    => \A i \in DOMAIN RoundAfter.attempts[ActiveBefore.id] :
            RoundAfter.attempts[ActiveBefore.id][i] # Null

\* C7 amended: after one simulate for a simulated active player with a
\* pending slot, every slot that player had at dispatch holds an outcome, and
\* endRound has run: on a tie every player (this one too) has exactly one new
\* pending overtime slot; otherwise the player has zero pending slots and
\* either the single leader is the round's winner or, the round being
\* undecided, the turn has advanced.
C7_SimulateFills ==
    Simulated1
    => LET before == RoundBefore.attempts[ActiveBefore.id]
           after == RoundAfter.attempts[ActiveBefore.id]
       IN /\ \A i \in DOMAIN before : i \in DOMAIN after /\ after[i] # Null
          /\ \/ /\ RoundCompleted /\ Cardinality(Leaders) >= 2
                /\ \A id \in Ids(prev) :
                      /\ Len(RoundAfter.attempts[id]) = Len(RoundBefore.attempts[id]) + 1
                      /\ RoundAfter.attempts[id][Len(RoundAfter.attempts[id])] = Null
             \/ /\ RoundCompleted /\ Cardinality(Leaders) = 1
                /\ Len(after) = Len(before)
                /\ RoundAfter.winner \in Leaders
             \/ /\ ~RoundCompleted
                /\ Len(after) = Len(before)
                /\ RoundAfter.winner = NoWinner
                /\ TurnAdvanced

\* A simulate fills two pending slots, the round ends tied, and the player
\* has the one overtime slot pending.
C7_Witness ==
    /\ Simulated1
    /\ PendingBefore = 2
    /\ RoundCompleted
    /\ Cardinality(Leaders) >= 2
    /\ Len(RoundAfter.attempts[ActiveBefore.id]) = 3
    /\ RoundAfter.attempts[ActiveBefore.id][3] = Null

\* C8: a make or miss by a controlled active player writes true (make) or
\* false (miss) into that player's first pending slot of the active round
\* and into no other slot (slots created by the action are pending); in
\* every round the pending slots of a sequence form a suffix of it.
C8_MakeMissDeterminism ==
    /\ Shot
        => LET before == RoundBefore.attempts[ActiveBefore.id]
               k == CHOOSE i \in DOMAIN before :
                        /\ before[i] = Null
                        /\ \A j \in 1..(i - 1) : before[j] # Null
           IN /\ RoundAfter.attempts[ActiveBefore.id][k] =
                    (IF last.type = "make" THEN "true" ELSE "false")
              /\ \A r \in DOMAIN game.rounds : \A id \in Ids(game) :
                    \A i \in DOMAIN game.rounds[r].attempts[id] :
                        \/ r = prev.activeRound + 1 /\ id = ActiveBefore.id /\ i = k
                        \/ IF r \in DOMAIN prev.rounds /\ i \in DOMAIN prev.rounds[r].attempts[id]
                           THEN game.rounds[r].attempts[id][i] = prev.rounds[r].attempts[id][i]
                           ELSE game.rounds[r].attempts[id][i] = Null
              /\ \A r \in DOMAIN prev.rounds : \A id \in Ids(prev) :
                    /\ r \in DOMAIN game.rounds
                    /\ DOMAIN prev.rounds[r].attempts[id] \subseteq DOMAIN game.rounds[r].attempts[id]
    /\ \A r \in DOMAIN game.rounds : \A id \in DOMAIN game.rounds[r].attempts :
          \A i, j \in DOMAIN game.rounds[r].attempts[id] :
              (i < j /\ game.rounds[r].attempts[id][i] = Null)
              => game.rounds[r].attempts[id][j] = Null

\* Make then miss by the same controlled player, two attempts per round:
\* the sequence reads true, false.
C8_Witness ==
    /\ Shot
    /\ last.type = "miss"
    /\ PendingBefore = 1
    /\ RoundBefore.attempts[ActiveBefore.id] = <<"true", Null>>
    /\ SubSeq(RoundAfter.attempts[ActiveBefore.id], 1, 2) = <<"true", "false">>

\* C9: after start, every round's attempts mapping has exactly the roster's
\* ids as keys, every round's order is a permutation of the roster's ids,
\* and all attempt sequences of one round have the same length.
C9_RoundStructure ==
    Len(game.players) > 0
    => \A r \in DOMAIN game.rounds :
        LET round == game.rounds[r] IN
        /\ DOMAIN round.attempts = Ids(game)
        /\ Len(round.order) = Len(game.players)
        /\ { round.order[i] : i \in DOMAIN round.order } = Ids(game)
        /\ \A a, b \in DOMAIN round.attempts :
              Len(round.attempts[a]) = Len(round.attempts[b])

\* A three-player match in its second round, in overtime, the first
\* overtime attempt taken.
C9_Witness ==
    /\ Len(game.players) = 3
    /\ Len(game.rounds) = 2
    /\ \A id \in Ids(game) : Len(game.rounds[2].attempts[id]) = game.attempts + 1
    /\ \E id \in Ids(game) : game.rounds[2].attempts[id][game.attempts + 1] # Null
    /\ \E id \in Ids(game) : game.rounds[2].attempts[id][game.attempts + 1] = Null

\* C10: once a round's winner is a player id, the round holds that same id
\* after every action.
C10_RoundWinnerStable ==
    \A r \in DOMAIN prev.rounds :
        prev.rounds[r].winner # NoWinner
        => (r \in DOMAIN game.rounds /\ game.rounds[r].winner = prev.rounds[r].winner)

\* The second round is completed and won by another player than the first
\* round, whose winner stays.
C10_Witness ==
    /\ RoundCompleted
    /\ Len(prev.rounds) = 2
    /\ prev.rounds[1].winner # NoWinner
    /\ RoundAfter.winner # NoWinner
    /\ RoundAfter.winner # prev.rounds[1].winner
    /\ game.rounds[1].winner = prev.rounds[1].winner

\* C11: start dispatched on the empty initial game yields the action's
\* players, attempts and bestOf, exactly one round whose order is the input
\* player order, whose attempts give every player `attempts` pending slots,
\* whose winner is null and activePlayer 0, with activeRound 0 and
\* game.winner null.
C11_StartInitialises ==
    (last.type = "start" /\ prev = GAME)
    => (/\ game.players = last.args.players
        /\ game.attempts = last.args.attempts
        /\ game.bestOf = last.args.bestOf
        /\ Len(game.rounds) = 1
        /\ LET round == game.rounds[1] IN
            /\ Len(round.order) = Len(last.args.players)
            /\ \A i \in DOMAIN round.order : round.order[i] = last.args.players[i].id
            /\ DOMAIN round.attempts = { last.args.players[i].id : i \in DOMAIN last.args.players }
            /\ \A id \in DOMAIN round.attempts :
                  /\ Len(round.attempts[id]) = last.args.attempts
                  /\ \A i \in DOMAIN round.attempts[id] : round.attempts[id][i] = Null
            /\ round.winner = NoWinner
            /\ round.activePlayer = 0
        /\ game.activeRound = 0
        /\ game.winner = NoWinner)

\* A match of three players started with two attempts per round, best of one.
C11_Witness ==
    /\ last.type = "start"
    /\ prev = GAME
    /\ Len(game.players) = 3
    /\ last.args.attempts = 2
    /\ last.args.bestOf = 1
    /\ Len(game.rounds) = 1

\* C12: a make or miss dispatched while the controlled active player has no
\* pending slot in the active round aborts and leaves the Game as it was;
\* every action that aborts leaves the Game as it was.
C12_AllOrNothing ==
    /\ (/\ last.type \in {"make", "miss"}
         /\ HasActivePlayer(prev)
         /\ ActiveBefore.controlled
         /\ PendingBefore = 0)
        => (last.threw /\ game = prev)
    /\ last.threw => game = prev

\* A make dispatched for a controlled player whose slots are all taken (the
\* match is won): the dispatch aborts.
C12_Witness ==
    /\ last.type = "make"
    /\ last.threw
    /\ HasActivePlayer(prev)
    /\ ActiveBefore.controlled
    /\ PendingBefore = 0
    /\ game = prev

\* C13: whenever a round's winner is non-null, no attempt slot of that round
\* is pending and the winner's total makes in the round is strictly greater
\* than every other player's.
C13_WinnerIsStrictLeader ==
    \A r \in DOMAIN game.rounds :
        LET round == game.rounds[r] IN
        round.winner # NoWinner
        => (/\ \A id \in DOMAIN round.attempts : \A i \in DOMAIN round.attempts[id] :
                  round.attempts[id][i] # Null
            /\ round.winner \in DOMAIN round.attempts
            /\ \A id \in DOMAIN round.attempts \ {round.winner} :
                  Cardinality({ i \in DOMAIN round.attempts[round.winner] :
                                  round.attempts[round.winner][i] = "true" })
                  > Cardinality({ i \in DOMAIN round.attempts[id] :
                                    round.attempts[id][i] = "true" }))

\* A round of three players decided in overtime: the winner leads by the
\* overtime make.
C13_Witness ==
    /\ Len(game.players) = 3
    /\ \E r \in DOMAIN game.rounds :
          /\ game.rounds[r].winner # NoWinner
          /\ Len(game.rounds[r].attempts[game.rounds[r].winner]) = game.attempts + 1
          /\ game.rounds[r].attempts[game.rounds[r].winner][game.attempts + 1] = "true"

\* C14: game.winner is non-null exactly when some player has won
\* ceil(bestOf / 2) rounds; then that player has exactly that many round
\* wins and every other player strictly fewer.
C14_MatchWinnerExact ==
    /\ game.winner # NoWinner
        <=> \E id \in Ids(game) : RoundsWon(game, id) >= Majority(game.bestOf)
    /\ game.winner # NoWinner
        => (/\ game.winner \in Ids(game)
            /\ RoundsWon(game, game.winner) = Majority(game.bestOf)
            /\ \A id \in Ids(game) \ {game.winner} :
                  RoundsWon(game, id) < Majority(game.bestOf))

\* A best-of-3 match won 2 rounds to 1.
C14_Witness ==
    /\ game.bestOf = 3
    /\ game.winner # NoWinner
    /\ Len(game.rounds) = 3
    /\ RoundsWon(game, game.winner) = 2
    /\ \E id \in Ids(game) \ {game.winner} : RoundsWon(game, id) = 1

\* The first pending slot (1-based) of the active player before the action.
FirstPendingBefore ==
    CHOOSE i \in DOMAIN RoundBefore.attempts[ActiveBefore.id] :
        /\ RoundBefore.attempts[ActiveBefore.id][i] = Null
        /\ \A j \in 1..(i - 1) : RoundBefore.attempts[ActiveBefore.id][j] # Null

\* C15: a make or miss that fills a slot which is not the active player's
\* last slot changes only that one slot: activePlayer, activeRound, the
\* rounds, every round winner, game.winner and all other attempt slots are
\* unchanged.
C15_EarlierShotChangesOneSlot ==
    (Shot /\ PendingBefore > 1)
    => (/\ game.activeRound = prev.activeRound
        /\ game.winner = prev.winner
        /\ game.players = prev.players
        /\ game.attempts = prev.attempts /\ game.bestOf = prev.bestOf
        /\ Len(game.rounds) = Len(prev.rounds)
        /\ \A r \in DOMAIN prev.rounds :
              /\ game.rounds[r].winner = prev.rounds[r].winner
              /\ game.rounds[r].activePlayer = prev.rounds[r].activePlayer
              /\ game.rounds[r].order = prev.rounds[r].order
              /\ DOMAIN game.rounds[r].attempts = DOMAIN prev.rounds[r].attempts
              /\ \A id \in DOMAIN prev.rounds[r].attempts :
                    /\ Len(game.rounds[r].attempts[id]) = Len(prev.rounds[r].attempts[id])
                    /\ \A i \in DOMAIN prev.rounds[r].attempts[id] :
                          IF r = prev.activeRound + 1 /\ id = ActiveBefore.id
                             /\ i = FirstPendingBefore
                          THEN game.rounds[r].attempts[id][i] =
                                  (IF last.type = "make" THEN "true" ELSE "false")
                          ELSE game.rounds[r].attempts[id][i] = prev.rounds[r].attempts[id][i])

\* The first of two attempts of the second player of the order is recorded
\* and the turn stays with that player.
C15_Witness ==
    /\ Shot
    /\ PendingBefore = 2
    /\ RoundBefore.activePlayer = 1
    /\ RoundAfter.activePlayer = 1
    /\ RoundAfter.attempts[ActiveBefore.id][FirstPendingBefore] # Null

\* The last action filled the active player's last pending slot.
LastSlotFilled == (Shot /\ PendingBefore = 1) \/ Simulated1

\* C16: when the active player's last pending slot is filled (by make, miss
\* or simulate) while another player of the round still has a pending slot,
\* activePlayer becomes (activePlayer + 1) mod (number of players), and no
\* winner is set, no overtime slot is appended and no round is created.
C16_TurnAdvanceOnUndecided ==
    (LastSlotFilled /\ StillUndecided)
    => (/\ TurnAdvanced
        /\ RoundAfter.winner = NoWinner
        /\ game.winner = prev.winner
        /\ \A id \in Ids(prev) :
              Len(RoundAfter.attempts[id]) = Len(RoundBefore.attempts[id])
        /\ Len(game.rounds) = Len(prev.rounds)
        /\ game.activeRound = prev.activeRound)

\* A simulate for the last player of the order in an overtime that this
\* player opened: the others still have their slot, the turn wraps to 0.
C16_Witness ==
    /\ Simulated1
    /\ StillUndecided
    /\ RoundBefore.activePlayer = Len(RoundBefore.order) - 1
    /\ RoundAfter.activePlayer = 0
    /\ Len(RoundBefore.attempts[ActiveBefore.id]) > prev.attempts

\* C17: the transition that appends the overtime slots leaves the round's
\* activePlayer unchanged: the player who recorded the attempt that produced
\* the tie shoots first in the overtime.
C17_OvertimeKeepsTurn ==
    (RoundCompleted /\ Cardinality(Leaders) >= 2)
    => (/\ RoundAfter.activePlayer = RoundBefore.activePlayer
        /\ game.activeRound = prev.activeRound
        /\ HasActivePlayer(game)
        /\ getActivePlayer(game) = ActiveBefore)

\* A tie produced by a player who is not first in the order: that player,
\* not order[0], has the turn in the overtime.
C17_Witness ==
    /\ RoundCompleted
    /\ Cardinality(Leaders) >= 2
    /\ RoundAfter.activePlayer # 0
    /\ RoundAfter.activePlayer = RoundBefore.activePlayer
    /\ \A id \in Ids(prev) :
          Len(RoundAfter.attempts[id]) = Len(RoundBefore.attempts[id]) + 1

\* C18: at the moment a round is appended, each roster player has exactly
\* game.attempts slots in it, all pending, its winner is null, its
\* activePlayer is 0, and game.activeRound is the new round's index.
C18_NewRoundIsFresh ==
    Len(game.rounds) > Len(prev.rounds)
    => (/\ Len(game.rounds) = Len(prev.rounds) + 1
        /\ LET new == game.rounds[Len(game.rounds)] IN
            /\ DOMAIN new.attempts = Ids(game)
            /\ \A id \in Ids(game) :
                  /\ Len(new.attempts[id]) = game.attempts
                  /\ \A i \in DOMAIN new.attempts[id] : new.attempts[id][i] = Null
            /\ new.winner = NoWinner
            /\ new.activePlayer = 0
        /\ game.activeRound = Len(game.rounds) - 1)

\* A round decided in overtime is followed by a new round without the
\* overtime slot.
C18_Witness ==
    /\ RoundCompleted
    /\ Len(game.rounds) = Len(prev.rounds) + 1
    /\ \A id \in Ids(prev) : Len(RoundBefore.attempts[id]) = prev.attempts + 1
    /\ \A id \in Ids(game) :
          Len(game.rounds[Len(game.rounds)].attempts[id]) = game.attempts

\* C19: after start, activeRound is the index of the newest round, every
\* round before it has a winner, and the active round has a winner only if
\* the game has one.
C19_ActiveRoundIsNewest ==
    Len(game.players) > 0
    => (/\ game.activeRound = Len(game.rounds) - 1
        /\ \A r \in 1..(Len(game.rounds) - 1) : game.rounds[r].winner # NoWinner
        /\ game.rounds[Len(game.rounds)].winner # NoWinner => game.winner # NoWinner)

\* The third round is active after a second round that was decided in
\* overtime by a player who is not last in the order.
C19_Witness ==
    /\ RoundCompleted
    /\ Len(prev.rounds) = 2
    /\ Len(game.rounds) = 3
    /\ game.activeRound = 2
    /\ RoundBefore.activePlayer # Len(RoundBefore.order) - 1
    /\ game.winner = NoWinner

\* The action that matches the kind of the player whose turn it was.
MatchingAction ==
    \/ last.type \in {"make", "miss"} /\ ActiveBefore.controlled
    \/ last.type = "simulate" /\ ~ActiveBefore.controlled

\* C20: in every state after start with game.winner null, the active player
\* of the active round has a pending slot; no dispatch aborts in such a
\* state, and the action matching the player's kind changes the state.
C20_NoDeadEnd ==
    /\ (Len(game.players) > 0 /\ game.winner = NoWinner)
        => (/\ HasActivePlayer(game)
            /\ \E i \in DOMAIN getActiveRound(game).attempts[getActivePlayer(game).id] :
                  getActiveRound(game).attempts[getActivePlayer(game).id][i] = Null)
    /\ (Played /\ Len(prev.players) > 0 /\ prev.winner = NoWinner)
        => (/\ ~last.threw
            /\ MatchingAction => game # prev)

\* In an overtime opened by the last player of the order the turn has
\* wrapped to the first player, who has the overtime slot pending.
C20_Witness ==
    /\ LastSlotFilled
    /\ StillUndecided
    /\ game.winner = NoWinner
    /\ Len(RoundAfter.attempts[ActiveBefore.id]) = prev.attempts + 1
    /\ RoundAfter.activePlayer = 0
    /\ getActiveRound(game).attempts[getActivePlayer(game).id][game.attempts + 1] = Null
    /\ game # prev

\* C21 as stated: for odd bestOf and a roster of two or more players, the
\* number of rounds never exceeds bestOf.
C21_RoundsWithinBestOf ==
    (Len(game.players) >= 2 /\ game.bestOf % 2 = 1)
    => Len(game.rounds) <= game.bestOf

\* C21 amended: for odd bestOf and a roster of n >= 2 players, the number of
\* rounds never exceeds n * (ceil(bestOf / 2) - 1) + 1, which is bestOf for
\* two players.
C21_RoundsWithinMajorityBound ==
    (Len(game.players) >= 2 /\ game.bestOf % 2 = 1)
    => (/\ Len(game.rounds)
              <= Len(game.players) * (Majority(game.bestOf) - 1) + 1
        /\ Len(game.players) = 2 => Len(game.rounds) <= game.bestOf)

\* Three players have won one round each of a best-of-3 match: the fourth
\* round exists.
C21_Witness ==
    /\ Len(game.players) = 3
    /\ game.bestOf = 3
    /\ Len(game.rounds) = 4
    /\ \A id \in Ids(game) : RoundsWon(game, id) = 1
    /\ game.winner = NoWinner

\* C23: a simulate action for a player with percentage 0 never records a
\* make, whatever the draw in 0..100.
C23_ZeroPercentNeverMakes ==
    (Simulated1 /\ ActiveBefore.percentage = 0)
    => \A i \in DOMAIN RoundBefore.attempts[ActiveBefore.id] :
            RoundBefore.attempts[ActiveBefore.id][i] = Null
            => Recorded(ActiveBefore.id, i) # "true"

\* The active round is in overtime and undecided.
TieOpen ==
    /\ HasActiveRound(game)
    /\ getActiveRound(game).winner = NoWinner
    /\ \E id \in DOMAIN getActiveRound(game).attempts :
            Len(getActiveRound(game).attempts[id]) > game.attempts

\* Every tied round is eventually broken by some overtime cycle: no round
\* stays tied for ever (TieOpen ~> ~TieOpen, written as TLC checks it fastest).
TiesBroken == []<>~TieOpen

\* C22: for bestOf >= 1, if the matching make/miss/simulate step keeps being
\* dispatched and every tied round is eventually broken, a started match
\* eventually has a winner.
C22_MatchTerminates ==
    TiesBroken => ((Len(game.players) > 0 /\ game.bestOf >= 1) ~> game.winner # NoWinner)

\* A best-of-3 match that went through a broken tie has its winner.
C22_Witness ==
    /\ game.winner # NoWinner
    /\ game.bestOf = 3
    /\ \E k \in DOMAIN game.rounds :
            \E id \in DOMAIN game.rounds[k].attempts :
                Len(game.rounds[k].attempts[id]) > game.attempts
    /\ last.type \in {"make", "miss", "simulate"}
    /\ prev.winner = NoWinner

====
